---------------------------- MODULE Spec2Model ----------------------------
(***************************************************************************)
(* A model of the exercise runner (src/src/verify.rs) and of the           *)
(* interactive exercise list (src/src/list.rs).                            *)
(*                                                                         *)
(* One behaviour of the model is one call of an entry point: verify(),     *)
(* test() or list().  The collaborators that are not part of these files   *)
(* (Exercise::run, Exercise::state, the terminal, the event source) are    *)
(* inputs: every result their signatures allow is drawn with \E.           *)
(* Standard output is taken to be writable (println! panics otherwise).    *)
(***************************************************************************)
EXTENDS Integers, Sequences, FiniteSets, TLC

(***************************************************************************)
(* Bounds of the model.                                                    *)
(***************************************************************************)
\* longest pending sequence handed to verify()
MaxPending == 2
\* largest value of either counter of the progress pair (num_done, total)
MaxCount == 3
\* longest exercise catalog handed to list()
MaxLen == 2
\* most events read by one call of list()
MaxEvents == 3
\* width of usize in the model (the code's usize is 64 bits wide)
UsizeBits == 3

(***************************************************************************)
(* f32 arithmetic (IEEE 754 binary32, round to nearest, ties to even).     *)
(* A finite non-negative value is [tag |-> "fin", m |-> M, e |-> E],       *)
(* standing for M / 2^E, kept with M odd or E = 0.  The other values the   *)
(* code can produce are +infinity and NaN.                                 *)
(***************************************************************************)
\* number of significand bits of an f32
SigBits == 24

RECURSIVE Pow2(_)
Pow2(n) == IF n = 0 THEN 1 ELSE 2 * Pow2(n - 1)

F32Nan == [tag |-> "nan", m |-> 0, e |-> 0]
F32Inf == [tag |-> "inf", m |-> 0, e |-> 0]

RECURSIVE F32Norm(_, _)
F32Norm(m, e) ==
    IF m = 0 THEN [tag |-> "fin", m |-> 0, e |-> 0]
    ELSE IF e > 0 /\ m % 2 = 0 THEN F32Norm(m \div 2, e - 1)
    ELSE [tag |-> "fin", m |-> m, e |-> e]

\* the least s with p / 2^s < 2^SigBits
RECURSIVE ShiftFor(_, _)
ShiftFor(p, s) ==
    IF p \div Pow2(s) < Pow2(SigBits) THEN s ELSE ShiftFor(p, s + 1)

\* p / 2^e rounded to SigBits significant bits
F32Round(p, e) ==
    LET s == ShiftFor(p, 0)
        q == p \div Pow2(s)
        r == p % Pow2(s)
        h == IF s = 0 THEN 0 ELSE Pow2(s - 1)
        up == s > 0 /\ (r > h \/ (r = h /\ q % 2 = 1))
        q2 == IF up THEN q + 1 ELSE q
    IN  F32Norm(q2 * Pow2(s), e)

\* the least k with (a * 2^k) / b >= 2^(SigBits - 1)
RECURSIVE ScaleFor(_, _, _)
ScaleFor(a, b, k) ==
    IF (a * Pow2(k)) \div b >= Pow2(SigBits - 1) THEN k
    ELSE ScaleFor(a, b, k + 1)

\* `a as f32 / b as f32` for small non-negative integers a and b
F32Div(a, b) ==
    IF b = 0 THEN (IF a = 0 THEN F32Nan ELSE F32Inf)
    ELSE IF a = 0 THEN F32Norm(0, 0)
    ELSE LET k == ScaleFor(a, b, 0)
             n == a * Pow2(k)
             q == n \div b
             r == n % b
             up == 2 * r > b \/ (2 * r = b /\ q % 2 = 1)
         IN  F32Norm(IF up THEN q + 1 ELSE q, k)

\* `x * c` for an f32 x and a small integer constant c
F32Mul(x, c) ==
    IF x.tag # "fin" THEN x ELSE F32Round(x.m * c, x.e)

\* `x + y` for non-negative f32 values
F32Add(x, y) ==
    IF x.tag = "nan" \/ y.tag = "nan" THEN F32Nan
    ELSE IF x.tag = "inf" \/ y.tag = "inf" THEN F32Inf
    ELSE LET e == IF x.e > y.e THEN x.e ELSE y.e
         IN  F32Round(x.m * Pow2(e - x.e) + y.m * Pow2(e - y.e), e)

\* n / d rounded to the nearest integer, ties to even
RoundHalfEven(n, d) ==
    LET q == n \div d
        r == n % d
    IN  IF 2 * r > d \/ (2 * r = d /\ q % 2 = 1) THEN q + 1 ELSE q

\* format!("({percentage:.1} %)"): the value in tenths, or NaN / inf
Fmt1(x) ==
    IF x.tag # "fin" THEN [tag |-> x.tag, tenths |-> 0]
    ELSE [tag |-> "fin", tenths |-> RoundHalfEven(x.m * 10, Pow2(x.e))]


(***************************************************************************)
(* State.                                                                  *)
(***************************************************************************)
VARIABLES
    entry,              \* the entry point this behaviour calls
    build,              \* "debug" (overflow checks on) or "release" (off)
    \* ---- arguments and environment of verify() / test()
    pending_exercises,  \* sequence of exercises, each [mode |-> ...]
    progress,           \* <<num_done, total>>
    verbose,
    success_hints,
    no_emoji,           \* env::var("NO_EMOJI").is_ok()
    \* ---- verify() / test()
    vpc,                \* "call", "loop" or "returned"
    idx,                \* position of the for loop in pending_exercises
    bar,                \* the ProgressBar: [len, pos, msg, finished]
    percentage,         \* the f32 local of verify()
    calls,              \* history: one record per exercise.run() call
    out,                \* history: what was written to the terminal
    step,               \* history: what the last helper call handed back,
                        \* and what it hands back with NO_EMOJI flipped
    ret,                \* the value returned: [kind, ex, err]
    \* ---- arguments of list()
    exercises_len,      \* exercises.len()
    state,              \* the State: [progress, next_exercise_ind]
    \* ---- list()
    lpc,                \* "call", "draw", "read", "returned" or "panicked"
    alt_screen,         \* the terminal shows the alternate screen
    raw_mode,           \* the terminal is in raw mode
    table,              \* the rows of the Table built by table()
    last_ind,
    selected,
    table_state,        \* the row TableState has selected
    nevents,            \* history: how many events were read
    last_event,         \* history: the last event read
    lret                \* the value returned: "none", "Ok" or "Err"

verifyVars == <<pending_exercises, progress, verbose, success_hints, no_emoji,
                vpc, idx, bar, percentage, calls, out, step, ret>>

listVars == <<exercises_len, state, lpc, alt_screen, raw_mode, table,
              last_ind, selected, table_state, nevents, last_event, lret>>

vars == <<entry, build, verifyVars, listVars>>

Modes == {"Test", "Compile", "Clippy"}

\* Exercise::run() -> Result<Output>: Ok with a zero or a nonzero exit
\* status, or Err (the toolchain could not be started)
RunResults == {"success", "nonzero", "err"}

\* Exercise::state() -> Result<State>: Done (no marker left), Pending (the
\* marker is still in the source) or Err (the source could not be read)
StateResults == {"Done", "Pending", "err"}

Ev(k, ex, txt) == [k |-> k, ex |-> ex, txt |-> txt]

\* what a helper of verify() hands back: the Result<bool> (ret is "true",
\* "false" or "err"), the text it wrote, and whether it called state()
Res(r, e, o, asked) == [ret |-> r, err |-> e, out |-> o, asked |-> asked]

\* In the strings below :tada: stands for the character U+1F389 and
\* :paperclip: for U+1F4CE of the source.
ClippySuccessMsg(ne) ==
    IF ne THEN "The code is compiling, and Clippy is happy!"
    ELSE "The code is compiling, and :paperclip: Clippy :paperclip: is happy!"

SuccessMsg(mode, ne) ==
    CASE mode = "Compile" -> "The code is compiling!"
      [] mode = "Test" -> "The code is compiling, and the tests pass!"
      [] mode = "Clippy" -> ClippySuccessMsg(ne)

\* a banner that does not look at the toggle
Banner_Plain(mode, ne) == "~*~ " \o SuccessMsg(mode, ne) \o " ~*~"

Banner(mode, ne) ==
    IF ne THEN "~*~ " \o SuccessMsg(mode, ne) \o " ~*~"
    ELSE ":tada: :tada: " \o SuccessMsg(mode, ne) \o " :tada: :tada:"

SuccessLine(mode) ==
    CASE mode = "Compile" -> "Successfully ran"
      [] mode = "Test" -> "Successfully tested"
      [] mode = "Clippy" -> "Successfully compiled"

\* a prompt_for_completion that warns about the marker and goes on
PromptForCompletion_Continue(ex, mode, prompt_output, hints, st, ne) ==
    CASE st = "err" -> Res("err", "state", <<>>, TRUE)
      [] st = "Done" -> Res("true", "none", <<>>, TRUE)
      [] st = "Pending" ->
            Res("true", "none",
                <<Ev("success", ex, SuccessLine(mode)),
                  Ev("banner", ex, Banner(mode, ne))>>, TRUE)

PromptForCompletion(ex, mode, prompt_output, hints, st, ne) ==
    CASE st = "err" -> Res("err", "state", <<>>, TRUE)
      [] st = "Done" -> Res("true", "none", <<>>, TRUE)
      [] st = "Pending" ->
            Res("false", "none",
                <<Ev("success", ex, SuccessLine(mode)),
                  Ev("banner", ex, Banner(mode, ne))>>
                \o (IF prompt_output = "Some"
                    THEN <<Ev("output", ex, "stdout")>> ELSE <<>>)
                \o (IF hints THEN <<Ev("hints", ex, "hint")>> ELSE <<>>)
                \o <<Ev("keep_working", ex, "I AM NOT DONE"),
                     Ev("context", ex, "context lines")>>,
                TRUE)

CompileOnly(ex, mode, hints, run, st, ne) ==
    IF run = "err" THEN Res("err", "run", <<>>, FALSE)
    ELSE PromptForCompletion(ex, mode, "None", hints, st, ne)

CompileAndRunInteractively(ex, mode, hints, run, st, ne) ==
    CASE run = "err" -> Res("err", "run", <<>>, FALSE)
      [] run = "nonzero" ->
            Res("err", "TODO",
                <<Ev("warn", ex, "Ran with errors"),
                  Ev("stdout", ex, "stdout"),
                  Ev("stderr", ex, "stderr")>>, FALSE)
      [] run = "success" ->
            PromptForCompletion(ex, mode, "Some", hints, st, ne)

\* a compile_and_test that echoes stdout only when the tests failed
CompileAndTest_QuietSuccess(ex, mode, run_mode, verb, hints, run, st, ne) ==
    CASE run = "err" -> Res("err", "run", <<>>, FALSE)
      [] run = "nonzero" ->
            Res("err", "TODO",
                <<Ev("warn", ex, "Testing failed! Please try again."),
                  Ev("stdout", ex, "stdout"),
                  Ev("stderr", ex, "stderr")>>, FALSE)
      [] run = "success" ->
            LET p == PromptForCompletion(ex, mode, "None", hints, st, ne)
            IN  IF run_mode = "Interactive"
                THEN Res(p.ret, p.err, p.out, TRUE)
                ELSE Res("true", "none", <<>>, FALSE)

\* a compile_and_test that prompts for completion in either run mode
CompileAndTest_AlwaysPrompt(ex, mode, run_mode, verb, hints, run, st, ne) ==
    CASE run = "err" -> Res("err", "run", <<>>, FALSE)
      [] run = "nonzero" ->
            Res("err", "TODO",
                <<Ev("warn", ex, "Testing failed! Please try again."),
                  Ev("stdout", ex, "stdout"),
                  Ev("stderr", ex, "stderr")>>, FALSE)
      [] run = "success" ->
            LET echo == IF verb THEN <<Ev("stdout", ex, "stdout")>> ELSE <<>>
                p == PromptForCompletion(ex, mode, "None", hints, st, ne)
            IN  Res(p.ret, p.err, echo \o p.out, TRUE)

CompileAndTest(ex, mode, run_mode, verb, hints, run, st, ne) ==
    CASE run = "err" -> Res("err", "run", <<>>, FALSE)
      [] run = "nonzero" ->
            Res("err", "TODO",
                <<Ev("warn", ex, "Testing failed! Please try again."),
                  Ev("stdout", ex, "stdout"),
                  Ev("stderr", ex, "stderr")>>, FALSE)
      [] run = "success" ->
            LET echo == IF verb THEN <<Ev("stdout", ex, "stdout")>> ELSE <<>>
                p == PromptForCompletion(ex, mode, "None", hints, st, ne)
            IN  IF run_mode = "Interactive"
                THEN Res(p.ret, p.err, echo \o p.out, TRUE)
                ELSE Res("true", "none", echo, FALSE)

\* the match on exercise.mode in the loop of verify()
CompileResult(ex, mode, verb, hints, run, st, ne) ==
    CASE mode = "Test" ->
            CompileAndTest(ex, mode, "Interactive", verb, hints, run, st, ne)
      [] mode = "Compile" ->
            CompileAndRunInteractively(ex, mode, hints, run, st, ne)
      [] mode = "Clippy" -> CompileOnly(ex, mode, hints, run, st, ne)

NumDone == progress[1]
Total == progress[2]

InitialPercentage(num_done, total) == F32Mul(F32Div(num_done, total), 100)

\* a step of the percentage that leaves out the factor 100
NextPercentage_NoFactor(p, total) == F32Add(p, F32Div(1, total))

NextPercentage(p, total) == F32Add(p, F32Div(100, total))

BarInc(b, p) == [b EXCEPT !.pos = @ + 1, !.msg = Fmt1(p)]

NoRet == [kind |-> "none", ex |-> 0, err |-> "none"]

\* the record of one exercise.run() call: its result, what state() says of
\* the exercise's source (source), what state() answered if it was called
\* (state), and the Result<bool> of the helper
Call(i, run, r, st) ==
    [ex |-> i, run |-> run, source |-> st,
     state |-> IF r.asked THEN st ELSE "none", result |-> r.ret]

NoStep ==
    [res |-> Res("none", "none", <<>>, FALSE),
     flipped |-> Res("none", "none", <<>>, FALSE)]

\* verify(), lines 29-39: the tracker is set up at num_done / total
VerifyCall ==
    /\ entry = "verify"
    /\ vpc = "call"
    /\ percentage' = InitialPercentage(NumDone, Total)
    /\ bar' = [len |-> Total, pos |-> NumDone, msg |-> Fmt1(percentage'),
               finished |-> FALSE]
    /\ idx' = 1
    /\ vpc' = "loop"
    /\ UNCHANGED <<entry, build, pending_exercises, progress, verbose,
                   success_hints, no_emoji, calls, out, step, ret,
                   listVars>>

\* verify(), lines 41-53: one iteration of the loop
VerifyStep ==
    /\ entry = "verify"
    /\ vpc = "loop"
    /\ idx <= Len(pending_exercises)
    /\ \E run \in RunResults, st \in StateResults :
          LET r == CompileResult(idx, pending_exercises[idx].mode, verbose,
                                 success_hints, run, st, no_emoji)
          IN  /\ calls' = Append(calls, Call(idx, run, r, st))
              /\ out' = out \o r.out
              /\ step' = [res |-> r,
                          flipped |->
                            CompileResult(idx, pending_exercises[idx].mode,
                                          verbose, success_hints, run, st,
                                          ~no_emoji)]
              /\ CASE r.ret = "err" ->
                        /\ ret' = [kind |-> "Err", ex |-> idx, err |-> r.err]
                        /\ vpc' = "returned"
                        /\ UNCHANGED <<idx, bar, percentage>>
                   [] r.ret = "false" ->
                        /\ ret' = [kind |-> "Failed", ex |-> idx,
                                   err |-> "none"]
                        /\ vpc' = "returned"
                        /\ UNCHANGED <<idx, bar, percentage>>
                   [] r.ret = "true" ->
                        /\ percentage' = NextPercentage(percentage, Total)
                        /\ bar' = BarInc(bar, percentage')
                        /\ idx' = idx + 1
                        /\ UNCHANGED <<ret, vpc>>
    /\ UNCHANGED <<entry, build, pending_exercises, progress, verbose,
                   success_hints, no_emoji, listVars>>

\* verify(), lines 55-58: the loop ran to its end
VerifyFinish ==
    /\ entry = "verify"
    /\ vpc = "loop"
    /\ idx > Len(pending_exercises)
    /\ bar' = [bar EXCEPT !.finished = TRUE]
    /\ out' = Append(out, Ev("all_done", 0, "You completed all exercises!"))
    /\ ret' = [kind |-> "AllExercisesDone", ex |-> 0, err |-> "none"]
    /\ vpc' = "returned"
    /\ UNCHANGED <<entry, build, pending_exercises, progress, verbose,
                   success_hints, no_emoji, idx, percentage, calls, step,
                   listVars>>

\* test(), lines 68-71, on the exercise pending_exercises[1]
Test ==
    /\ entry = "test"
    /\ vpc = "call"
    /\ \E run \in RunResults, st \in StateResults :
          LET r == CompileAndTest(1, pending_exercises[1].mode,
                                  "NonInteractive", verbose, FALSE, run, st,
                                  no_emoji)
          IN  /\ calls' = Append(calls, Call(1, run, r, st))
              /\ out' = out \o r.out
              /\ step' = [res |-> r,
                          flipped |->
                            CompileAndTest(1, pending_exercises[1].mode,
                                           "NonInteractive", verbose, FALSE,
                                           run, st, ~no_emoji)]
              /\ ret' = IF r.ret = "err"
                        THEN [kind |-> "Err", ex |-> 1, err |-> r.err]
                        ELSE [kind |-> "Ok", ex |-> 0, err |-> "none"]
    /\ vpc' = "returned"
    /\ UNCHANGED <<entry, build, pending_exercises, progress, verbose,
                   success_hints, no_emoji, idx, bar, percentage, listVars>>

Exercises == [mode : Modes]

RECURSIVE SeqsUpTo(_, _)
SeqsUpTo(S, n) ==
    IF n = 0 THEN {<<>>}
    ELSE LET shorter == SeqsUpTo(S, n - 1)
         IN  shorter \cup {Append(s, x) : s \in shorter, x \in S}

NoEvent == [type |-> "none", code |-> "none", kind |-> "none"]

\* list() has not been called
ListIdle ==
    /\ lpc = "call"
    /\ alt_screen = FALSE
    /\ raw_mode = FALSE
    /\ table = <<>>
    /\ last_ind = 0
    /\ selected = 0
    /\ table_state = 0
    /\ nevents = 0
    /\ last_event = NoEvent
    /\ lret = "none"

NoBar == [len |-> 0, pos |-> 0, msg |-> Fmt1(F32Norm(0, 0)), finished |-> FALSE]

\* verify() and test() have no integer arithmetic that can overflow: one
\* build stands for both
InitVerify ==
    /\ entry \in {"verify", "test"}
    /\ build = "release"
    /\ pending_exercises \in
          IF entry = "verify" THEN SeqsUpTo(Exercises, MaxPending)
          ELSE {<<x>> : x \in Exercises}
    /\ progress \in
          IF entry = "verify" THEN (0 .. MaxCount) \X (0 .. MaxCount)
          ELSE {<<0, 0>>}
    /\ verbose \in BOOLEAN
    /\ success_hints \in IF entry = "verify" THEN BOOLEAN ELSE {FALSE}
    /\ no_emoji \in BOOLEAN
    /\ vpc = "call"
    /\ idx = 1
    /\ bar = NoBar
    /\ percentage = F32Norm(0, 0)
    /\ calls = <<>>
    /\ out = <<>>
    /\ step = NoStep
    /\ ret = NoRet
    /\ exercises_len = 0
    /\ state = [progress |-> <<>>, next_exercise_ind |-> 0]
    /\ ListIdle


(***************************************************************************)
(* list()                                                                  *)
(***************************************************************************)
\* usize::MAX
UsizeMax == Pow2(UsizeBits) - 1

Min(a, b) == IF a < b THEN a ELSE b
Max(a, b) == IF a > b THEN a ELSE b

SaturatingAdd(a, b) == Min(a + b, UsizeMax)
SaturatingSub(a, b) == Max(a - b, 0)

\* table(), lines 35-59: one row per exercise that has a progress flag; ind
\* is the position in the catalog, counted from 0
Table(st, len) ==
    [i \in 1 .. Min(len, Len(st.progress)) |->
        [ind |-> i - 1,
         next |-> (i - 1 = st.next_exercise_ind),
         label |-> IF st.progress[i] THEN "DONE" ELSE "PENDING"]]

\* `exercises.len() - 1` on usize, line 81: a panic with overflow checks,
\* wrapped around without
LastInd(len, b) ==
    IF len >= 1 THEN [panic |-> FALSE, val |-> len - 1]
    ELSE IF b = "debug" THEN [panic |-> TRUE, val |-> 0]
    ELSE [panic |-> FALSE, val |-> UsizeMax]

KeyCodes == {"q", "Down", "j", "Up", "k", "Home", "g", "End", "G",
             "d", "p", "r", "c", "Enter"}

Key(code, kind) == [type |-> "Key", code |-> code, kind |-> kind]
Other(type) == [type |-> type, code |-> "none", kind |-> "none"]

\* the events event::read() can hand back; the code of a key event that is
\* no press is never looked at, so two codes stand for all of them
Events ==
    {Key(c, "Press") : c \in KeyCodes}
    \cup {Key(c, k) : c \in {"q", "j"}, k \in {"Release", "Repeat"}}
    \cup {Other(t) : t \in {"Resize", "FocusGained", "FocusLost", "Mouse",
                            "Paste"}}

\* the match on key.code, lines 128-147: the new value of selected
Select(code, sel, last) ==
    CASE code \in {"Down", "j"} -> Min(SaturatingAdd(sel, 1), last)
      [] code \in {"Up", "k"} -> Max(SaturatingSub(sel, 1), 0)
      [] code \in {"Home", "g"} -> 0
      [] code \in {"End", "G"} -> last
      [] OTHER -> sel

\* a list that opens on the next pending exercise
InitialSelected_Next == state.next_exercise_ind

\* `let mut selected = 0;`, line 82
InitialSelected == 0

\* list(), lines 71-83: the terminal is set up, the table is built
ListCall ==
    /\ entry = "list"
    /\ lpc = "call"
    /\ \E fail \in {"none", "enter", "raw", "new", "clear"} :
          /\ alt_screen' = (fail # "enter")
          /\ raw_mode' = (fail \notin {"enter", "raw"})
          /\ IF fail # "none"
             THEN /\ lpc' = "returned"
                  /\ lret' = "Err"
                  /\ UNCHANGED <<table, last_ind, selected, table_state>>
             ELSE /\ table' = Table(state, exercises_len)
                  /\ IF LastInd(exercises_len, build).panic
                     THEN /\ lpc' = "panicked"
                          /\ UNCHANGED <<last_ind, selected, table_state>>
                     ELSE /\ last_ind' = LastInd(exercises_len, build).val
                          /\ selected' = InitialSelected
                          /\ table_state' = InitialSelected
                          /\ lpc' = "draw"
                  /\ UNCHANGED lret
    /\ UNCHANGED <<entry, build, verifyVars, exercises_len, state, nevents,
                   last_event>>

\* list(), lines 86-110: the frame is drawn (the terminal is taken to have
\* at least one line)
Draw ==
    /\ entry = "list"
    /\ lpc = "draw"
    /\ \E ok \in BOOLEAN :
          IF ok THEN lpc' = "read" /\ UNCHANGED lret
          ELSE lpc' = "returned" /\ lret' = "Err"
    /\ UNCHANGED <<entry, build, verifyVars, exercises_len, state,
                   alt_screen, raw_mode, table, last_ind, selected,
                   table_state, nevents, last_event>>

\* list(), lines 113: event::read() fails
ReadError ==
    /\ entry = "list"
    /\ lpc = "read"
    /\ lpc' = "returned"
    /\ lret' = "Err"
    /\ UNCHANGED <<entry, build, verifyVars, exercises_len, state,
                   alt_screen, raw_mode, table, last_ind, selected,
                   table_state, nevents, last_event>>

\* an inner loop that never leaves for a redraw
AfterOther_NoRedraw(ev) == "read"

\* an inner loop that leaves for a redraw after every event
AfterOther_AlwaysRedraw(ev) == "draw"

\* lines 121-124: where the inner loop goes after an event that is no key
\* press: Resize leaves it for the draw at the top of the outer loop, the
\* others read the next event
AfterOther(ev) == IF ev.type = "Resize" THEN "draw" ELSE "read"

\* list(), lines 112-126: an event that is no key press
ReadOther ==
    /\ entry = "list"
    /\ lpc = "read"
    /\ nevents < MaxEvents
    /\ \E ev \in Events :
          /\ ~(ev.type = "Key" /\ ev.kind = "Press")
          /\ last_event' = ev
          /\ lpc' = AfterOther(ev)
    /\ nevents' = nevents + 1
    /\ UNCHANGED <<entry, build, verifyVars, exercises_len, state,
                   alt_screen, raw_mode, table, last_ind, selected,
                   table_state, lret>>

\* list(), lines 112-147: a key press other than q
ReadKey ==
    /\ entry = "list"
    /\ lpc = "read"
    /\ nevents < MaxEvents
    /\ \E code \in KeyCodes \ {"q"} :
          /\ last_event' = Key(code, "Press")
          /\ selected' = Select(code, selected, last_ind)
          /\ table_state' =
                IF code \in {"Down", "j", "Up", "k", "Home", "g", "End", "G"}
                THEN selected' ELSE table_state
    /\ nevents' = nevents + 1
    /\ lpc' = "draw"
    /\ UNCHANGED <<entry, build, verifyVars, exercises_len, state,
                   alt_screen, raw_mode, table, last_ind, lret>>

\* list(), lines 129 and 150-154: q leaves the loop and the terminal is
\* handed back
ReadQuit ==
    /\ entry = "list"
    /\ lpc = "read"
    /\ nevents < MaxEvents
    /\ last_event' = Key("q", "Press")
    /\ nevents' = nevents + 1
    /\ \E fail \in {"none", "leave", "raw"} :
          /\ alt_screen' = (fail = "leave")
          /\ raw_mode' = (fail # "none")
          /\ lret' = IF fail = "none" THEN "Ok" ELSE "Err"
    /\ lpc' = "returned"
    /\ UNCHANGED <<entry, build, verifyVars, exercises_len, state, table,
                   last_ind, selected, table_state>>

States(len) ==
    {[progress |-> p, next_exercise_ind |-> n] :
        p \in [1 .. len -> BOOLEAN], n \in 0 .. len}

InitList ==
    /\ entry = "list"
    /\ build \in {"debug", "release"}
    /\ exercises_len \in 0 .. MaxLen
    /\ state \in States(exercises_len)
    /\ ListIdle
    /\ pending_exercises = <<>>
    /\ progress = <<0, 0>>
    /\ verbose = FALSE
    /\ success_hints = FALSE
    /\ no_emoji = FALSE
    /\ vpc = "call"
    /\ idx = 1
    /\ bar = NoBar
    /\ percentage = F32Norm(0, 0)
    /\ calls = <<>>
    /\ out = <<>>
    /\ step = NoStep
    /\ ret = NoRet

Init == InitVerify \/ InitList

Next ==
    \/ VerifyCall
    \/ VerifyStep
    \/ VerifyFinish
    \/ Test
    \/ ListCall
    \/ Draw
    \/ ReadError
    \/ ReadOther
    \/ ReadKey
    \/ ReadQuit

Spec == Init /\ [][Next]_vars


(***************************************************************************)
(* Properties of verify()                                                  *)
(***************************************************************************)
Calls == 1 .. Len(calls)

\* the exercise's invocation failed, or its source still holds the marker
HaltingCondition(c) == c.run \in {"nonzero", "err"} \/ c.state = "Pending"

\* how many exercises the loop has completed
Completed == Cardinality({i \in Calls : calls[i].result = "true"})

Failed(ex) == [kind |-> "Failed", ex |-> ex, err |-> "none"]

\* the text of kind k written about exercise ex
Emitted(k, ex) == \E n \in 1 .. Len(out) : out[n].k = k /\ out[n].ex = ex

\* (a + k) / n * 100 in tenths, computed exactly
ExactTenths(a, n) == RoundHalfEven(a * 1000, n)

\* C1: within one call of verify the exercises are invoked strictly in
\* sequence order, and no exercise is invoked after one whose invocation
\* failed or whose source still holds the marker.
C1_InOrderAndFailFast ==
    entry = "verify" =>
        /\ \A i \in Calls : calls[i].ex = i
        /\ \A i \in Calls, j \in Calls :
              i < j => ~HaltingCondition(calls[i])

\* C2: when the invocation of a pending exercise ends with a nonzero exit
\* status, verify writes the captured stdout and stderr and returns
\* Failed(that exercise).
C2_NonzeroExitReturnsFailed ==
    entry = "verify" =>
        \A i \in Calls :
            calls[i].run = "nonzero" =>
                /\ ret = Failed(calls[i].ex)
                /\ Emitted("stdout", calls[i].ex)
                /\ Emitted("stderr", calls[i].ex)

\* C3: in every mode, when the invocation succeeded and the source still
\* holds the marker, verify returns Failed(that exercise), the tracker has
\* not advanced for it and no later exercise is invoked.
C3_MarkerHaltsBatch ==
    entry = "verify" =>
        \A i \in Calls :
            (calls[i].run = "success" /\ calls[i].state = "Pending") =>
                /\ vpc = "returned"
                /\ ret = Failed(calls[i].ex)
                /\ i = Len(calls)
                /\ idx = calls[i].ex
                /\ bar.pos = NumDone + (calls[i].ex - 1)

\* C3 witness: a Clippy exercise whose lint passed with the marker still in
\* place halted a batch of two; the second exercise was never invoked.
C3_Witness ==
    /\ entry = "verify"
    /\ Len(pending_exercises) = 2
    /\ pending_exercises[1].mode = "Clippy"
    /\ Len(calls) = 1
    /\ calls[1].run = "success"
    /\ calls[1].state = "Pending"
    /\ ret = Failed(1)

\* C4: a Clippy exercise whose invocation ends with a nonzero exit status
\* halts the batch and is never completed or advanced past.
C4_ClippyNonzeroHalts ==
    entry = "verify" =>
        \A i \in Calls :
            (pending_exercises[calls[i].ex].mode = "Clippy"
                /\ calls[i].run = "nonzero") =>
                /\ calls[i].result # "true"
                /\ vpc = "returned"
                /\ idx = calls[i].ex

\* C6: verify returns AllDone exactly when every pending exercise was
\* invoked with success and no marker remained; on an empty pending
\* sequence it returns AllDone without any invocation.
C6_AllDoneIffAllSucceeded ==
    (entry = "verify" /\ vpc = "returned") =>
        /\ (ret.kind = "AllExercisesDone") <=>
              /\ Len(calls) = Len(pending_exercises)
              /\ \A i \in Calls :
                    calls[i].run = "success" /\ calls[i].state = "Done"
        /\ pending_exercises = <<>> =>
              (ret.kind = "AllExercisesDone" /\ calls = <<>>)

\* C7: called with total = 0, verify returns AllDone without invoking the
\* toolchain for any pending exercise.
C7_TotalZeroIsAllDone ==
    (entry = "verify" /\ Total = 0) =>
        /\ calls = <<>>
        /\ vpc = "returned" => ret.kind = "AllExercisesDone"

\* C8: after k exercises were completed, from num_done = d of total = n,
\* the tracker stands at d + k and (for n > 0) its label shows
\* (d + k) / n * 100; an exercise that halts the batch is not counted.
C8_TrackerPosition ==
    (entry = "verify" /\ vpc # "call") =>
        /\ bar.pos = NumDone + Completed
        /\ Total > 0 =>
              bar.msg = [tag |-> "fin",
                         tenths |-> ExactTenths(NumDone + Completed, Total)]

\* C8 witness: with 1 of 3 done, one exercise was completed and the next
\* one halted the batch: the tracker stands at 2 (66.7 %).
C8_Witness ==
    /\ entry = "verify"
    /\ progress = <<1, 3>>
    /\ Len(calls) = 2
    /\ calls[1].result = "true"
    /\ calls[2].result = "false"
    /\ bar.pos = 2
    /\ bar.msg.tenths = 667

(***************************************************************************)
(* Properties of list()                                                    *)
(***************************************************************************)
\* the last position of the catalog
Last == exercises_len - 1

\* C5: whenever list() returns, by the quit key or by an error, raw mode
\* is off and the alternate screen has been left.
C5_TerminalRestored ==
    (entry = "list" /\ lpc = "returned") => (~raw_mode /\ ~alt_screen)

\* C9: while the list is shown, selected stays within
\* [0, len(catalog) - 1].
C9_SelectedInRange ==
    (entry = "list" /\ lpc \in {"draw", "read"}) => selected \in 0 .. Last

\* C10: Down/j sets selected to min(selected + 1, last), Up/k to
\* max(selected - 1, 0), Home/g to 0 and End/G to last, where last is
\* len(catalog) - 1.
C10_SelectionTransitions ==
    [][(entry = "list" /\ lpc = "read" /\ nevents' = nevents + 1
            /\ last_event'.type = "Key" /\ last_event'.kind = "Press") =>
        LET code == last_event'.code
        IN  /\ code \in {"Down", "j"} => selected' = Min(selected + 1, Last)
            /\ code \in {"Up", "k"} => selected' = Max(selected - 1, 0)
            /\ code \in {"Home", "g"} => selected' = 0
            /\ code \in {"End", "G"} => selected' = Last]_vars

\* this step reads the press of key `code`
Pressed(code) ==
    /\ entry = "list"
    /\ lpc = "read"
    /\ nevents' = nevents + 1
    /\ last_event' = Key(code, "Press")

\* this step reads an event of type `type` that is no key event
Read(type) ==
    /\ entry = "list"
    /\ lpc = "read"
    /\ nevents' = nevents + 1
    /\ last_event' = Other(type)

\* C11: the list starts with selected = 0 whatever next_exercise_ind is.
C11_StartsAtZero ==
    (entry = "list" /\ lpc \in {"draw", "read"} /\ nevents = 0) =>
        (selected = 0 /\ table_state = 0)

\* C11 witness: the list was opened on a state whose next exercise is the
\* second one, and the first row is selected.
C11_Witness ==
    /\ entry = "list"
    /\ state.next_exercise_ind = 1
    /\ exercises_len = 2
    /\ lpc = "read"
    /\ nevents = 0
    /\ selected = 0

\* C12: pressing c sets next_exercise_ind to the selected exercise and
\* leaves the loop.
C12_ContinueAt ==
    [][Pressed("c") =>
        /\ state'.next_exercise_ind = selected
        /\ lpc' = "returned"]_vars

\* C13: pressing r clears the completion flag of the selected exercise and
\* leaves the other flags as they were.
C13_Reset ==
    [][(Pressed("r") /\ selected + 1 \in DOMAIN state.progress) =>
        state'.progress = [state.progress EXCEPT ![selected + 1] = FALSE]]_vars

\* the rows of t whose label is l
Filter(t, l) == SelectSeq(t, LAMBDA row : row.label = l)

\* C14: pressing d restricts the rows shown to the done exercises and p to
\* the pending ones; both leave the State unchanged.
C14_Filter ==
    [][/\ Pressed("d") => (table' = Filter(table, "DONE") /\ state' = state)
       /\ Pressed("p") => (table' = Filter(table, "PENDING") /\ state' = state)
      ]_vars

\* C15: a resize event leads to a redraw before the next event is read
\* (no event is read between the resize and the draw), leaves selected
\* unchanged and does not end the loop.
C15_ResizeRedraws ==
    [][/\ Read("Resize") =>
            /\ lpc' = "draw"
            /\ selected' = selected
            /\ table_state' = table_state
            /\ lret' = "none"
       /\ (entry = "list" /\ lpc = "draw") =>
            /\ nevents' = nevents
            /\ last_event' = last_event
            /\ selected' = selected]_vars

\* C15 witness: the second row was selected, the window was resized, the
\* frame was drawn again and the list waits for the next event.
C15_Witness ==
    /\ entry = "list"
    /\ last_event = Other("Resize")
    /\ lpc = "read"
    /\ selected = 1
    /\ lret = "none"

\* C16: focus-gained, focus-lost, mouse and paste events change neither
\* selected nor the State, lead to no redraw (the next event is read at
\* once) and do not end the loop.
C16_IgnoredEvents ==
    [][\A t \in {"FocusGained", "FocusLost", "Mouse", "Paste"} :
        Read(t) =>
            /\ selected' = selected
            /\ table_state' = table_state
            /\ state' = state
            /\ table' = table
            /\ lpc' = "read"
            /\ lret' = "none"]_vars

\* C16 witness: the second row was selected and a mouse event came in; the
\* list still waits for an event, the second row still selected.
C16_Witness ==
    /\ entry = "list"
    /\ last_event = Other("Mouse")
    /\ lpc = "read"
    /\ selected = 1
    /\ lret = "none"

\* C19: list() is safe for every catalog length: computing the last index
\* never underflows, and last_ind and selected are positions of the
\* catalog in every state of the list.
C19_NoUnderflow ==
    entry = "list" =>
        /\ lpc # "panicked"
        /\ lpc \in {"draw", "read"} =>
              (last_ind \in 0 .. Last /\ selected \in 0 .. Last)

(***************************************************************************)
(* Properties of verify() and test(), continued                            *)
(***************************************************************************)
Mode(c) == pending_exercises[c.ex].mode

\* C17: the emoji toggle is cosmetic: with the toggle flipped the same
\* call hands back the same result and writes the same text, but for the
\* banner, and the banner of the two settings differs.
C17_EmojiCosmetic ==
    entry \in {"verify", "test"} =>
        LET a == step.res
            b == step.flipped
        IN  /\ a.ret = b.ret
            /\ a.err = b.err
            /\ a.asked = b.asked
            /\ Len(a.out) = Len(b.out)
            /\ \A n \in 1 .. Len(a.out) :
                  IF a.out[n].k = "banner"
                  THEN /\ b.out[n].k = "banner"
                       /\ b.out[n].ex = a.out[n].ex
                       /\ b.out[n].txt # a.out[n].txt
                  ELSE b.out[n] = a.out[n]

\* C17 witness: a Test exercise that passed with the marker in place got
\* its banner, and verify returned Failed.
C17_Witness ==
    /\ entry = "verify"
    /\ ret.kind = "Failed"
    /\ pending_exercises[ret.ex].mode = "Test"
    /\ \E n \in 1 .. Len(step.res.out) : step.res.out[n].k = "banner"

\* C18: for a Test exercise whose harness ran, the captured stdout is
\* echoed exactly when verbose is set or the invocation failed.
C18_VerboseEcho ==
    entry \in {"verify", "test"} =>
        \A i \in Calls :
            (Mode(calls[i]) = "Test" /\ calls[i].run # "err") =>
                (Emitted("stdout", calls[i].ex)
                    <=> (verbose \/ calls[i].run = "nonzero"))

\* C18 witness: verbose is set, the tests of a Test exercise passed, and
\* their stdout was echoed.
C18_Witness ==
    /\ entry = "verify"
    /\ verbose
    /\ Len(calls) = 1
    /\ Mode(calls[1]) = "Test"
    /\ calls[1].run = "success"
    /\ Emitted("stdout", 1)

\* the completion prompt was written for exercise ex
Prompted(ex) ==
    \/ Emitted("success", ex)
    \/ Emitted("banner", ex)
    \/ Emitted("keep_working", ex)
    \/ Emitted("context", ex)

\* C20: test() never looks at the marker: when the harness exits with
\* status zero it returns Ok without calling state() and without the
\* completion prompt, marker or not; verify() on a Test exercise whose
\* harness exits with zero and whose source holds the marker returns
\* Failed.
C20_TestIgnoresMarker ==
    /\ (entry = "test" /\ vpc = "returned" /\ calls[1].run = "success") =>
          /\ ret.kind = "Ok"
          /\ calls[1].state = "none"
          /\ ~Prompted(1)
    /\ entry = "verify" =>
          \A i \in Calls :
              (Mode(calls[i]) = "Test" /\ calls[i].run = "success"
                  /\ calls[i].source = "Pending") =>
                  (ret = Failed(calls[i].ex) /\ Prompted(calls[i].ex))

\* C20 witness: test() returned Ok on a Test exercise whose source still
\* holds the marker.
C20_Witness ==
    /\ entry = "test"
    /\ pending_exercises[1].mode = "Test"
    /\ calls # <<>>
    /\ calls[1].run = "success"
    /\ calls[1].source = "Pending"
    /\ ret.kind = "Ok"

=============================================================================
